---- MODULE Spec2Model ----
(***************************************************************************)
(* Model of lscat-utils' MJPEG server (src/mjpeg_server.py): the Sanic     *)
(* routes "/" (forbidden) and "/<feed:str>" (mjpeg_server), the two-tier   *)
(* feed resolution, and the per-connection streaming loop mjpeg_streamer,  *)
(* run by several concurrent sessions against a frame directory that an    *)
(* external writer (the camera's FTP upload) changes by atomic rename.     *)
(*                                                                         *)
(* Time is counted in nanoseconds, the unit of time.perf_counter_ns().     *)
(*                                                                         *)
(* The module also holds a model of lscat-utils' EPICS-to-Redis bridge     *)
(* (src/lspvmonitor.py), a separate process with variables of its own.     *)
(***************************************************************************)
EXTENDS Integers, Sequences, FiniteSets, TLC

VARIABLES
    fs,          \* the frame directory (cwd after os.chdir(CAM_DIR)): path -> file
    FRAME_RATE,  \* LSCAT_MJPEG_FRAMERATE, fixed at import time
    sess,        \* one record per client connection (one handler coroutine each)
    boot,        \* the process started as "python mjpeg_server.py"
    retryQueue,  \* lspvmonitor: the list retryQueue
    queueLock,   \* lspvmonitor: the holder of queueLock, or "none"
    PVmonitors,  \* lspvmonitor: the PVs that have a CA monitor (epics.camonitor)
    redis,       \* lspvmonitor: the Redis stores: store -> hash -> fields
    reachable,   \* lspvmonitor: the PVs whose IOC answers
    main,        \* lspvmonitor: position of the main thread
    servicer,    \* lspvmonitor: position of the thread retryQueueServicer
    reg,         \* lspvmonitor: the activation of registerPvs, if any
    cb           \* lspvmonitor: the activation of lsPvCallback, if any

\* The state of lspvmonitor.
monitor ==
    <<retryQueue, queueLock, PVmonitors, redis, reachable, main, servicer,
      reg, cb>>

\* What the request handlers and the writer leave alone.
beside == <<boot, monitor>>

vars == <<fs, FRAME_RATE, sess, beside>>

(***************************************************************************)
(* Bounds of the model.                                                    *)
(***************************************************************************)
\* Iterations of the "while True" loop one session may start.
MaxChunks == 2

\* The client connections modelled.
Sessions == {"s1", "s2"}

\* Frame contents the writer uploads: byte strings of different lengths.
Contents == { <<7>>, <<8, 9>> }

\* Request paths, as the list of their segments: "/" and "/cam1".
Urls == { <<>>, <<"cam1">> }

\* Values of LSCAT_MJPEG_FRAMERATE (frames per second).
Rates == {10, 20, 100}

(***************************************************************************)
(* Program constants.                                                      *)
(***************************************************************************)
\* perf_counter_ns() ticks per second: the divisor 1000000000.0.
NS_PER_S == 1000000000

\* The guard band 0.01 s of "elapsed < (FRAME_TIME-0.01)", in ns.
GUARD_BAND == 10000000

\* The default of LSCAT_MJPEG_FRAMERATE.
DEFAULT_FRAME_RATE == 10

\* The fixed frame file name f"image00001.jpg".
IMAGE == "image00001.jpg"

\* An optional value: a local not yet assigned, a file not open, nothing sent.
None == <<>>
Some(x) == <<x>>

(***************************************************************************)
(* The frame directory.  A path is the list of its components, relative to *)
(* the working directory.  A file is replaced as a whole (the camera       *)
(* uploads to a temporary file and renames it), so an open file handle     *)
(* keeps the content its path had when it was opened.                      *)
(***************************************************************************)
Absent == [exists |-> FALSE, data |-> <<>>]
File(c) == [exists |-> TRUE, data |-> c]
Files == {Absent} \cup {File(c) : c \in Contents}

\* The paths the writer may create, replace or remove.
Paths == { <<IMAGE>>, <<"cam1", IMAGE>>, <<"cam1", "cam1-1", IMAGE>> }

\* os.path.join(a, b) for a path a and a name b: an empty part adds nothing.
join(a, b) == IF b = "" THEN a ELSE Append(a, b)

\* A directory name of the request as a path: "" is the working directory.
dir(name) == join(<<>>, name)

\* os.path.exists(p)
exists(p) == p \in DOMAIN fs /\ fs[p].exists

\* os.stat(p).st_size, for an existing p
st_size(p) == Len(fs[p].data)

(***************************************************************************)
(* Routing: @app.route("/") and @app.get("/<feed:str>").                   *)
(***************************************************************************)
\* Variant: "/" is served by mjpeg_server with its default feed="".
Route_root_is_feed(url) ==
    IF Len(url) <= 1 THEN "mjpeg_server" ELSE "unrouted"

Route(url) ==
    IF url = <<>> THEN "forbidden"
    ELSE IF Len(url) = 1 THEN "mjpeg_server"
    ELSE "unrouted"

\* The handler's parameter feed (default "").
FeedParam(url) == IF url = <<>> THEN "" ELSE url[1]

\* Variant: d2 = f"{feed}-1", not joined to the feed directory.
d2_not_joined(feed) == dir(feed \o "-1")

\* d2 = os.path.join(feed, f"{feed}-1")
d2(feed) == join(dir(feed), feed \o "-1")

\* os.path.join(d, f"image00001.jpg")
fileName(d) == join(d, IMAGE)

(***************************************************************************)
(* Pacing arithmetic.                                                      *)
(***************************************************************************)
\* FRAME_TIME = 1.0/FRAME_RATE, in ns.
FRAME_TIME == NS_PER_S \div FRAME_RATE

\* FRAME_TIME-0.01 is evaluated in IEEE double arithmetic.  For the frame
\* rates modelled the result is the exact difference, except at the default
\* rate: 0.1-0.01 evaluates to 0.09000000000000001, just above
\* 90000000/1000000000.0 = 0.09, so that an elapsed time of exactly
\* 90000000 ns still compares less.
DoubleRounding == IF FRAME_RATE = 10 THEN 1 ELSE 0

\* The least elapsed time (ns) that is not less than (FRAME_TIME-0.01).
GuardNs == FRAME_TIME - GUARD_BAND + DoubleRounding

\* Variant: sleeps whenever any time of the period is left.
ShouldSleep_no_guard(elapsed) == elapsed > 0 /\ elapsed < FRAME_TIME

\* elapsed > 0 and elapsed < (FRAME_TIME-0.01)
ShouldSleep(elapsed) == elapsed > 0 /\ elapsed < GuardNs

\* Variant: sleeps the whole frame period, whatever has elapsed.
SleepTime_whole_period(elapsed) == FRAME_TIME

\* FRAME_TIME - elapsed, to the nanosecond.  (The double result differs from
\* the exact difference by less than a nanosecond; at the default rate and
\* elapsed = 90000000 ns it is 0.010000000000000009 s, a hair above 10 ms.)
SleepTime(elapsed) == FRAME_TIME - elapsed

\* What the double FRAME_TIME - elapsed has beyond the whole nanoseconds of
\* SleepTime, as a sign.  The doubles 1.0/10 and 1.0/20 lie above the exact
\* period by more than elapsed/1000000000.0 is off, so for every elapsed time
\* that leads to a sleep the request lies above its whole nanoseconds by a
\* fraction of one (0.1 - 0.09 is 0.010000000000000009, 0.05 - 0.039999999 is
\* 0.010000001000000001).  At rate 100 nothing is ever requested.
SleepRounding(elapsed) == IF FRAME_RATE \in {10, 20} THEN 1 ELSE 0

\* Durations (ns) an iteration may be measured to take: none, one tick, and
\* the values around the guard and the frame period.
ElapsedSamples ==
    { d \in { 0, 1, FRAME_TIME - GUARD_BAND - 1, FRAME_TIME - GUARD_BAND,
              FRAME_TIME - GUARD_BAND + 1, FRAME_TIME } : d >= 0 }

(***************************************************************************)
(* Sessions.  pc is the coroutine's position:                              *)
(*   idle      no request received yet                                     *)
(*   exists1   mjpeg_server, at the elif of the feed lookup                *)
(*   respond   awaiting request.respond(...)                               *)
(*   stat      top of the while loop of mjpeg_streamer                     *)
(*   open      after os.stat, before open                                  *)
(*   sendHead, sendBody, sendTail   before each of the three sends         *)
(*   pace      after the chunk, before elapsed is computed                 *)
(*   sleep     awaiting asyncio.sleep                                      *)
(*   closed    the handler has returned or raised                          *)
(* hdr and body are the content-length and the payload sent so far for the *)
(* chunk in progress; chunks counts the chunks completed.  atOpen records  *)
(* what the frame path held when the iteration opened it (history only: no *)
(* action reads it).  t is perf_counter_ns() - start.                      *)
(***************************************************************************)
NewSession ==
    [ pc |-> "idle", url |-> <<>>, feed |-> "", feedSubdir |-> <<>>,
      responded |-> FALSE, size |-> None, fh |-> None,
      hdr |-> None, body |-> None, chunks |-> 0,
      atOpen |-> None,
      t |-> 0, sleepReq |-> 0, result |-> "none", why |-> "none" ]

\* The app object is served by a running Sanic worker.
Served ==
    [ pc |-> "listening", env |-> [port |-> None, cert |-> None, key |-> None],
      PORT |-> None, TLS_CERT |-> None, TLS_KEY |-> None, error |-> "none" ]

\* lspvmonitor is another process: it is not running beside the server.
NoMonitor ==
    /\ retryQueue = <<>>
    /\ queueLock = "none"
    /\ PVmonitors = {}
    /\ redis = <<>>
    /\ reachable = {}
    /\ main = "off"
    /\ servicer = "off"
    /\ reg = <<>>
    /\ cb = <<>>

Init ==
    /\ fs \in [Paths -> Files]
    /\ FRAME_RATE = DEFAULT_FRAME_RATE
    /\ sess = [s \in Sessions |-> NewSession]
    /\ boot = Served
    /\ NoMonitor

(***************************************************************************)
(* Leaving the handler.                                                    *)
(***************************************************************************)
\* The coroutine of session s ends: its locals are gone (the with block has
\* closed fh) and the connection is torn down.
Ended(r, exc, cause) ==
    [ r EXCEPT !.pc = "closed", !.result = exc, !.why = cause,
               !.size = None, !.fh = None, !.hdr = None, !.body = None,
               !.atOpen = None, !.feed = "", !.feedSubdir = <<>>,
               !.t = 0, !.sleepReq = 0 ]

\* Variant: the fault ends every session streaming the same frame file.
Raise_whole_feed(s, exc, cause) ==
    sess' = [o \in Sessions |->
               IF o = s \/ ( /\ sess[o].responded
                             /\ sess[o].pc # "closed"
                             /\ sess[o].feedSubdir = sess[s].feedSubdir )
               THEN Ended(sess[o], exc, cause)
               ELSE sess[o]]

\* raise exc in the handler of session s: only that handler ends.
Raise(s, exc, cause) ==
    sess' = [sess EXCEPT ![s] = Ended(@, exc, cause)]

(***************************************************************************)
(* The handlers.                                                           *)
(***************************************************************************)
\* @app.route("/") async def forbidden(request): raise Forbidden
forbidden(s, url) ==
    /\ sess[s].pc = "idle"
    /\ Route(url) = "forbidden"
    /\ sess' = [sess EXCEPT ![s] = Ended([@ EXCEPT !.url = url], "Forbidden", "forbidden")]
    /\ UNCHANGED <<fs, FRAME_RATE, beside>>

\* Variant: a session that has ended takes the next request of its
\* connection and goes on as the same session.
mjpeg_server_reuses_session(s, url) ==
    /\ sess[s].pc \in {"idle", "closed"}
    /\ Route(url) = "mjpeg_server"
    /\ LET feed == FeedParam(url) IN
       sess' = [sess EXCEPT ![s] =
                  [@ EXCEPT !.url = url, !.feed = feed,
                            !.feedSubdir = IF exists(fileName(d2(feed)))
                                           THEN d2(feed) ELSE dir(feed),
                            !.pc = IF exists(fileName(d2(feed)))
                                   THEN "respond" ELSE "exists1"]]
    /\ UNCHANGED <<fs, FRAME_RATE, beside>>

\* mjpeg_server up to and including the first os.path.exists: the sub-feed
\* directory d2 is taken when it holds the frame file.
mjpeg_server(s, url) ==
    /\ sess[s].pc = "idle"
    /\ Route(url) = "mjpeg_server"
    /\ LET feed == FeedParam(url) IN
       sess' = [sess EXCEPT ![s] =
                  [@ EXCEPT !.url = url, !.feed = feed,
                            !.feedSubdir = IF exists(fileName(d2(feed)))
                                           THEN d2(feed) ELSE dir(feed),
                            !.pc = IF exists(fileName(d2(feed)))
                                   THEN "respond" ELSE "exists1"]]
    /\ UNCHANGED <<fs, FRAME_RATE, beside>>

\* Variant: the elif never raises.
mjpeg_server_elif_no_raise(s) ==
    /\ sess[s].pc = "exists1"
    /\ sess' = [sess EXCEPT ![s].pc = "respond"]
    /\ UNCHANGED <<fs, FRAME_RATE, beside>>

\* elif not os.path.exists(os.path.join(feedSubdir, ...)): raise NotFound
mjpeg_server_elif(s) ==
    /\ sess[s].pc = "exists1"
    /\ IF exists(fileName(sess[s].feedSubdir))
       THEN sess' = [sess EXCEPT ![s].pc = "respond"]
       ELSE Raise(s, "NotFound", "resolve")
    /\ UNCHANGED <<fs, FRAME_RATE, beside>>

\* response = await request.respond(content_type="multipart/x-mixed-replace...")
\* followed by the call of mjpeg_streamer(response).
respond(s) ==
    /\ sess[s].pc = "respond"
    /\ sess' = [sess EXCEPT ![s].responded = TRUE, ![s].pc = "stat"]
    /\ UNCHANGED <<fs, FRAME_RATE, beside>>

(***************************************************************************)
(* mjpeg_streamer: one iteration of the while loop.                        *)
(***************************************************************************)
\* Variant: the feed is resolved again at the top of every iteration.
StatFrame_resolves_again(s) ==
    /\ sess[s].pc = "stat"
    /\ sess[s].chunks < MaxChunks
    /\ LET sub == IF exists(fileName(d2(sess[s].feed)))
                  THEN d2(sess[s].feed) ELSE dir(sess[s].feed)
           f == fileName(sub)
       IN  IF exists(f)
           THEN sess' = [sess EXCEPT ![s].t = 0, ![s].sleepReq = 0,
                                     ![s].feedSubdir = sub,
                                     ![s].size = Some(st_size(f)),
                                     ![s].pc = "open"]
           ELSE Raise(s, "ServerError", "readFault")
    /\ UNCHANGED <<fs, FRAME_RATE, beside>>

\* Variant: a failed os.stat is retried after a pause instead of raised.
StatFrame_retry(s) ==
    /\ sess[s].pc = "stat"
    /\ sess[s].chunks < MaxChunks
    /\ LET f == fileName(sess[s].feedSubdir) IN
       IF exists(f)
       THEN sess' = [sess EXCEPT ![s].t = 0, ![s].sleepReq = 0,
                                 ![s].size = Some(st_size(f)),
                                 ![s].pc = "open"]
       ELSE sess' = [sess EXCEPT ![s].pc = "sleep"]
    /\ UNCHANGED <<fs, FRAME_RATE, beside>>

\* start = time.perf_counter_ns(); finfo = os.stat(fileName).
\* os.stat raises when the file is gone; the except clause turns that into
\* ServerError.
StatFrame(s) ==
    /\ sess[s].pc = "stat"
    /\ sess[s].chunks < MaxChunks
    /\ LET f == fileName(sess[s].feedSubdir) IN
       IF exists(f)
       THEN sess' = [sess EXCEPT ![s].t = 0, ![s].sleepReq = 0,
                                 ![s].size = Some(st_size(f)),
                                 ![s].pc = "open"]
       ELSE Raise(s, "ServerError", "readFault")
    /\ UNCHANGED <<fs, FRAME_RATE, beside>>

\* with open(fileName, "rb") as fh: the handle keeps the file it opened.
OpenFrame(s) ==
    /\ sess[s].pc = "open"
    /\ LET f == fileName(sess[s].feedSubdir) IN
       IF exists(f)
       THEN sess' = [sess EXCEPT ![s].fh = Some(fs[f].data),
                                 ![s].atOpen = Some(fs[f].data),
                                 ![s].pc = "sendHead"]
       ELSE Raise(s, "ServerError", "readFault")
    /\ UNCHANGED <<fs, FRAME_RATE, beside>>

\* Variant: the payload is sent where the header should be.
SendHead_after_payload(s) ==
    /\ sess[s].pc = "sendHead"
    /\ sess' = [sess EXCEPT ![s].body = sess[s].fh, ![s].pc = "sendBody"]
    /\ UNCHANGED <<fs, FRAME_RATE, beside>>

\* await response.send(f"--lscat_mjpeg...content-length: {finfo.st_size}\r\n\r\n")
SendHead(s) ==
    /\ sess[s].pc = "sendHead"
    /\ sess' = [sess EXCEPT ![s].hdr = sess[s].size, ![s].pc = "sendBody"]
    /\ UNCHANGED <<fs, FRAME_RATE, beside>>

\* Variant: the file is read by name when the payload is sent, not through
\* the handle opened before the header was sent.
read_by_name(s) ==
    IF exists(fileName(sess[s].feedSubdir))
    THEN fs[fileName(sess[s].feedSubdir)].data
    ELSE <<>>

\* fh.read(): the whole content of the open file.
read(s) == sess[s].fh[1]

\* await response.send(fh.read())
SendBody(s) ==
    /\ sess[s].pc = "sendBody"
    /\ sess' = [sess EXCEPT ![s].body = Some(read(s)), ![s].pc = "sendTail"]
    /\ UNCHANGED <<fs, FRAME_RATE, beside>>

\* await response.send(f"\r\n"), the end of the with block, and the time the
\* iteration has taken by then (d, drawn when the last send completes).
SendTail(s, d) ==
    /\ sess[s].pc = "sendTail"
    /\ sess' = [sess EXCEPT ![s].hdr = None, ![s].body = None,
                            ![s].fh = None, ![s].size = None,
                            ![s].atOpen = None,
                            ![s].chunks = @ + 1,
                            ![s].t = @ + d, ![s].pc = "pace"]
    /\ UNCHANGED <<fs, FRAME_RATE, beside>>

\* Variant: the loop returns after an iteration that needs no pause.
Pace_ends_stream(s) ==
    /\ sess[s].pc = "pace"
    /\ LET elapsed == sess[s].t IN
       IF ShouldSleep(elapsed)
       THEN sess' = [sess EXCEPT ![s].sleepReq = SleepTime(elapsed),
                                 ![s].pc = "sleep"]
       ELSE sess' = [sess EXCEPT ![s] = Ended(@, "none", "end")]
    /\ UNCHANGED <<fs, FRAME_RATE, beside>>

\* elapsed = float(time.perf_counter_ns() - start)/1000000000.0
\* if elapsed > 0 and elapsed < (FRAME_TIME-0.01): await asyncio.sleep(...)
Pace(s) ==
    /\ sess[s].pc = "pace"
    /\ LET elapsed == sess[s].t IN
       IF ShouldSleep(elapsed)
       THEN sess' = [sess EXCEPT ![s].sleepReq = SleepTime(elapsed),
                                 ![s].pc = "sleep"]
       ELSE sess' = [sess EXCEPT ![s].sleepReq = 0, ![s].pc = "stat"]
    /\ UNCHANGED <<fs, FRAME_RATE, beside>>

\* asyncio.sleep returns: back to the top of the loop.
Wake(s) ==
    /\ sess[s].pc = "sleep"
    /\ sess' = [sess EXCEPT ![s].pc = "stat"]
    /\ UNCHANGED <<fs, FRAME_RATE, beside>>

(***************************************************************************)
(* Faults.                                                                 *)
(***************************************************************************)
\* os.stat, open or fh.read() raises OSError for a reason other than a
\* missing file (permission, I/O error): except Exception -> ServerError.
ReadFault(s) ==
    /\ sess[s].pc \in {"stat", "open", "sendBody"}
    /\ sess[s].pc = "stat" => sess[s].chunks < MaxChunks
    /\ Raise(s, "ServerError", "readFault")
    /\ UNCHANGED <<fs, FRAME_RATE, beside>>

\* response.send raises an Exception (broken pipe, connection reset):
\* except Exception -> ServerError.
SendFault(s) ==
    /\ sess[s].pc \in {"sendHead", "sendBody", "sendTail"}
    /\ Raise(s, "ServerError", "sendFault")
    /\ UNCHANGED <<fs, FRAME_RATE, beside>>

\* The connection is lost while the coroutine is suspended in an await: the
\* task is cancelled.  asyncio.CancelledError is a BaseException, which
\* "except Exception" does not catch, so nothing is raised in its place.
Disconnect(s) ==
    /\ sess[s].pc \in {"respond", "sendHead", "sendBody", "sendTail", "sleep"}
    /\ Raise(s, "Cancelled", "disconnect")
    /\ UNCHANGED <<fs, FRAME_RATE, beside>>

(***************************************************************************)
(* The external writer.                                                    *)
(***************************************************************************)
\* The camera uploads a frame: the file at p is replaced atomically.
Replace(p, c) ==
    /\ fs' = [fs EXCEPT ![p] = File(c)]
    /\ UNCHANGED <<FRAME_RATE, sess, beside>>

\* An operator removes a frame file (a change of the directory layout).
Remove(p) ==
    /\ fs[p].exists
    /\ fs' = [fs EXCEPT ![p] = Absent]
    /\ UNCHANGED <<FRAME_RATE, sess, beside>>

(***************************************************************************)
(* Specifications.                                                         *)
(***************************************************************************)
\* One step of the handler of session s.
Step(s) ==
    \/ \E url \in Urls : forbidden(s, url)
    \/ \E url \in Urls : mjpeg_server(s, url)
    \/ mjpeg_server_elif(s)
    \/ respond(s)
    \/ StatFrame(s)
    \/ OpenFrame(s)
    \/ SendHead(s)
    \/ SendBody(s)
    \/ \E d \in ElapsedSamples : SendTail(s, d)
    \/ Pace(s)
    \/ Wake(s)
    \/ ReadFault(s)
    \/ SendFault(s)
    \/ Disconnect(s)

Writer ==
    \/ \E p \in Paths, c \in Contents : Replace(p, c)
    \/ \E p \in Paths : Remove(p)

Next ==
    \/ \E s \in Sessions : Step(s)
    \/ Writer

\* All sessions, at the default frame rate.
Spec == Init /\ [][Next]_vars

\* One session under every frame rate modelled.
InitPacing ==
    /\ fs \in [Paths -> Files]
    /\ FRAME_RATE \in Rates
    /\ sess = [s \in Sessions |-> NewSession]
    /\ boot = Served
    /\ NoMonitor

NextPacing ==
    \/ Step("s1")
    \/ Writer

SpecPacing == InitPacing /\ [][NextPacing]_vars

\* One session at the default frame rate, its handler scheduled fairly: the
\* event loop runs every coroutine that is ready.
InitLive ==
    /\ fs \in [Paths -> Files]
    /\ FRAME_RATE = DEFAULT_FRAME_RATE
    /\ sess = [s \in Sessions |-> NewSession]
    /\ boot = Served
    /\ NoMonitor

NextLive ==
    \/ Step("s1")
    \/ Writer

SpecLive == InitLive /\ [][NextLive]_vars /\ WF_vars(Step("s1"))

(***************************************************************************)
(* Vocabulary of the properties.                                           *)
(***************************************************************************)
\* The two candidate frame files of a feed, as the convention names them:
\* {feed}/image00001.jpg and {feed}/{feed}-1/image00001.jpg.
Tier1(feed) == <<feed, "image00001.jpg">>
Tier2(feed) == <<feed, feed \o "-1", "image00001.jpg">>

\* A file is present at p.
Has(p) == p \in DOMAIN fs /\ fs[p].exists

\* The frame path session s reads.
FramePath(s) == Append(sess[s].feedSubdir, "image00001.jpg")

\* Positions inside the streaming loop (the session is Streaming).
LoopPcs == {"stat", "open", "sendHead", "sendBody", "sendTail", "pace", "sleep"}

\* Session s takes a step.
Moves(s) == sess'[s] # sess[s]

(***************************************************************************)
(* C1.  Content-length and payload.                                        *)
(***************************************************************************)
\* C1: in every chunk of every session the content-length sent in the header
\* equals the number of payload bytes sent after the blank line, whatever the
\* writer does in between.  The code takes the length from os.stat and the
\* bytes from a later open, so a replacement between the two breaks it.
C1_ContentLengthMatchesPayload ==
    \A s \in Sessions :
        sess[s].pc = "sendTail" => sess[s].hdr = Some(Len(sess[s].body[1]))

(***************************************************************************)
(* C2.  Feed resolution priority.                                          *)
(***************************************************************************)
\* C2: a request /{feed} selects {feed}/{feed}-1/image00001.jpg when that file
\* exists (whether or not {feed}/image00001.jpg exists); otherwise it selects
\* {feed}/image00001.jpg when that exists; otherwise the result is NotFound.
\* Each file is looked at once, so the property is stated of the step that
\* looks at it.
C2_ResolutionPriority ==
    [][\A s \in Sessions :
        /\ (sess[s].pc = "idle" /\ Moves(s) /\ sess'[s].url # <<>>) =>
              LET feed == sess'[s].url[1] IN
              /\ sess'[s].feed = feed
              /\ Has(Tier2(feed)) =>
                    /\ sess'[s].pc = "respond"
                    /\ Append(sess'[s].feedSubdir, "image00001.jpg") = Tier2(feed)
              /\ ~Has(Tier2(feed)) => sess'[s].pc = "exists1"
        /\ (sess[s].pc = "exists1" /\ Moves(s)) =>
              /\ Has(Tier1(sess[s].feed)) =>
                    /\ sess'[s].pc = "respond"
                    /\ Append(sess'[s].feedSubdir, "image00001.jpg") = Tier1(sess[s].feed)
              /\ ~Has(Tier1(sess[s].feed)) =>
                    /\ sess'[s].pc = "closed"
                    /\ sess'[s].result = "NotFound"
        /\ (sess[s].pc \in {"respond"} \cup LoopPcs /\ sess'[s].pc # "closed") =>
              sess'[s].feedSubdir = sess[s].feedSubdir
    ]_vars

\* Both candidate files exist and the sub-feed file is the one selected.
C2_Witness ==
    \E s \in Sessions :
        /\ sess[s].pc = "respond"
        /\ FramePath(s) = Tier2("cam1")
        /\ Has(Tier1("cam1")) /\ Has(Tier2("cam1"))

(***************************************************************************)
(* C3.  An unresolved feed never streams.                                  *)
(***************************************************************************)
\* C3: a request that finds neither candidate file when it looks for them
\* ends with NotFound, and a session that ended with NotFound never started
\* the multipart response and never sent anything (no header, no payload, no
\* chunk); once closed it does nothing more.
C3_NotFoundNeverStreams ==
    /\ [](\A s \in Sessions :
            sess[s].result = "NotFound" =>
                /\ sess[s].pc = "closed"
                /\ ~sess[s].responded
                /\ sess[s].chunks = 0
                /\ sess[s].hdr = None /\ sess[s].body = None)
    /\ [][\A s \in Sessions :
            /\ (sess[s].pc = "idle" /\ Moves(s) /\ sess'[s].url # <<>>
                  /\ ~Has(Tier2(sess'[s].url[1]))) =>
                  sess'[s].pc = "exists1" /\ ~sess'[s].responded
            /\ (sess[s].pc = "exists1" /\ Moves(s) /\ ~Has(Tier1(sess[s].feed))) =>
                  sess'[s].pc = "closed" /\ sess'[s].result = "NotFound"
            /\ (sess[s].result = "NotFound" => ~Moves(s))
       ]_vars

\* A request for cam1 was answered NotFound while neither file exists.
C3_Witness ==
    \E s \in Sessions :
        /\ sess[s].pc = "closed" /\ sess[s].result = "NotFound"
        /\ sess[s].url = <<"cam1">>
        /\ ~Has(Tier1("cam1")) /\ ~Has(Tier2("cam1"))

(***************************************************************************)
(* C4.  A read fault closes the session.                                   *)
(***************************************************************************)
\* C4: when os.stat, open or fh.read() fails in an iteration (the file is
\* gone, or the call raises for another reason), that step closes the
\* session with ServerError, and a closed session takes no further step: it
\* reads the file no more and sends nothing more.
C4_ReadFaultClosesSession ==
    [][\A s \in Sessions :
        /\ (sess[s].pc \in {"stat", "open"} /\ ~Has(FramePath(s)) /\ Moves(s)) =>
              sess'[s].pc = "closed" /\ sess'[s].result = "ServerError"
        /\ (sess'[s].why = "readFault" /\ Moves(s)) =>
              /\ sess[s].pc \in {"stat", "open", "sendBody"}
              /\ sess'[s].pc = "closed" /\ sess'[s].result = "ServerError"
        /\ (sess[s].why = "readFault" => ~Moves(s))
    ]_vars

\* A session that had already sent a chunk was closed by a read fault.
C4_Witness ==
    \E s \in Sessions :
        /\ sess[s].why = "readFault" /\ sess[s].pc = "closed"
        /\ sess[s].result = "ServerError"
        /\ sess[s].chunks >= 1
        /\ sess[s].url = <<"cam1">>
        /\ ~Has(Tier1("cam1")) /\ ~Has(Tier2("cam1"))

(***************************************************************************)
(* C5.  A send fault.                                                      *)
(***************************************************************************)
\* C5: when one of the three sends of a chunk fails because the client has
\* disconnected, the session closes silently: no ServerError is raised for
\* it.  The code's except clause covers the sends, so it raises ServerError.
C5_SendFaultIsSilent ==
    \A s \in Sessions :
        sess[s].why = "sendFault" =>
            sess[s].pc = "closed" /\ sess[s].result # "ServerError"

(***************************************************************************)
(* C6.  Faults are contained in their session.                             *)
(***************************************************************************)
\* C6: a step that closes one session (read fault, send fault, disconnect,
\* or any other end) changes no other session's record, so every other
\* session keeps its position in the loop, its resolved path and its pacing;
\* and a session inside the streaming loop can always take its next step,
\* whatever state the other sessions are in.
C6_FaultsAreContained ==
    /\ [][\A s \in Sessions :
            Moves(s) => \A o \in Sessions \ {s} : sess'[o] = sess[o]]_vars
    /\ [](\A o \in Sessions :
            ( /\ sess[o].pc \in LoopPcs
              /\ ~(sess[o].pc = "stat" /\ sess[o].chunks >= MaxChunks) ) =>
                ENABLED ( \/ StatFrame(o) \/ OpenFrame(o) \/ SendHead(o)
                          \/ SendBody(o)
                          \/ (\E d \in ElapsedSamples : SendTail(o, d))
                          \/ Pace(o) \/ Wake(o) ))

\* One session of a feed was closed by a fault in its first iteration while
\* the other session of the same feed is sending its second chunk.
C6_Witness ==
    \E s, o \in Sessions :
        /\ s # o
        /\ sess[s].pc = "closed"
        /\ sess[s].why \in {"readFault", "sendFault", "disconnect"}
        /\ sess[s].chunks = 0 /\ sess[s].responded
        /\ sess[o].pc = "sendBody" /\ sess[o].chunks = 1
        /\ sess[o].url = sess[s].url

(***************************************************************************)
(* C7, C8.  Pacing.  After Pace, t is the elapsed time of the iteration    *)
(* just finished and sleepReq the suspension requested (0: none), until    *)
(* the next iteration starts.                                              *)
(***************************************************************************)
\* Session s has finished an iteration and decided about its suspension.
Paced(s) == sess[s].pc \in {"sleep", "stat"} /\ sess[s].chunks >= 1

\* C7 as stated: whenever elapsed is positive and at most period - 10 ms
\* (the boundary value included) the session suspends for period - elapsed.
C7_SuspendsUpToBoundary ==
    \A s \in Sessions :
        ( /\ Paced(s)
          /\ sess[s].t > 0
          /\ sess[s].t <= FRAME_TIME - GUARD_BAND ) =>
            sess[s].sleepReq = FRAME_TIME - sess[s].t

\* C7 amended: whenever elapsed is positive and more than 10 ms below the
\* period (elapsed < period - 10 ms, the boundary value excluded) the
\* session suspends, and the suspension requested is period - elapsed.
C7_SuspendsBelowBoundary ==
    \A s \in Sessions :
        /\ ( /\ Paced(s)
             /\ sess[s].t > 0
             /\ sess[s].t < FRAME_TIME - GUARD_BAND ) =>
               sess[s].sleepReq = FRAME_TIME - sess[s].t
        /\ sess[s].pc = "sleep" => sess[s].sleepReq > 0

\* A session sleeps after an iteration that took 1 ns less than the boundary,
\* at a frame rate other than the default.
C7_Witness ==
    \E s \in Sessions :
        /\ sess[s].pc = "sleep"
        /\ FRAME_RATE = 20
        /\ sess[s].t = FRAME_TIME - GUARD_BAND - 1
        /\ sess[s].sleepReq = GUARD_BAND + 1

\* C8: whenever the elapsed time of an iteration meets or exceeds the period
\* minus 10 ms, the session requests no suspension and is at the top of the
\* loop again.  At the default frame rate the comparison is made against
\* 0.09000000000000001, so an iteration of exactly 90 ms still suspends.
C8_NoSuspensionFromBoundary ==
    \A s \in Sessions :
        ( /\ Paced(s)
          /\ sess[s].t >= FRAME_TIME - GUARD_BAND ) =>
            sess[s].pc = "stat" /\ sess[s].sleepReq = 0

(***************************************************************************)
(* C9.  No staleness.                                                      *)
(***************************************************************************)
\* C9 as stated: the payload of a chunk is what the frame path holds at the
\* moment of the iteration's fh.read().
C9_PayloadIsFileAtRead ==
    [][\A s \in Sessions :
          (sess[s].pc = "sendBody" /\ sess'[s].pc = "sendTail") =>
              /\ Has(FramePath(s))
              /\ sess'[s].body = Some(fs[FramePath(s)].data)]_vars

\* C9 amended: the payload of every chunk is the content the frame file had
\* at the moment that iteration opened it, never content kept from an
\* earlier iteration; so a file replaced by X after iteration k opened it,
\* and not again before iteration k+1 opens it, gives chunk k+1 payload X.
C9_PayloadIsFileAtOpen ==
    /\ [](\A s \in Sessions :
            sess[s].pc = "sendTail" =>
                sess[s].body # None /\ sess[s].body = sess[s].atOpen)
    /\ [][\A s \in Sessions :
            (sess[s].pc = "open" /\ sess'[s].pc = "sendHead") =>
                /\ Has(FramePath(s))
                /\ sess'[s].atOpen = Some(fs[FramePath(s)].data)]_vars

\* In its second iteration a session has sent the longer frame as payload
\* while its header announced the length of the shorter one: the file was
\* replaced after the iteration's os.stat.
C9_Witness ==
    \E s \in Sessions :
        /\ sess[s].pc = "sendTail" /\ sess[s].chunks = 1
        /\ sess[s].body = Some(<<8, 9>>)
        /\ sess[s].hdr = Some(1)

(***************************************************************************)
(* C10.  The root path.                                                    *)
(***************************************************************************)
\* C10: a request for "/" is answered Forbidden and never starts a stream,
\* whatever the frame directory holds.
C10_RootIsForbidden ==
    \A s \in Sessions :
        (sess[s].pc # "idle" /\ sess[s].url = <<>>) =>
            /\ sess[s].pc = "closed"
            /\ sess[s].result = "Forbidden"
            /\ ~sess[s].responded
            /\ sess[s].chunks = 0

\* "/" was answered Forbidden while image00001.jpg exists in the base
\* directory itself.
C10_Witness ==
    \E s \in Sessions :
        /\ sess[s].url = <<>> /\ sess[s].result = "Forbidden"
        /\ Has(<<"image00001.jpg">>)

(***************************************************************************)
(* Startup: the module-level assignments and the __main__ block, for the   *)
(* process started as "python mjpeg_server.py".  boot.pc is                *)
(*   start      nothing executed yet                                       *)
(*   main       lines 38-46 done, at "if __name__ == '__main__'"           *)
(*   listening  app.run is serving                                         *)
(*   failed     the process has ended with the error boot.error            *)
(***************************************************************************)
\* Settings of LSCAT_SERVER_PORT: unset, a port, a word, a number too large.
PortSettings == { None, Some("8443"), Some("http"), Some("70000") }

\* Settings of LSCAT_TLS_CERT and of LSCAT_TLS_KEY: unset, or a file name.
FileSettings == { None, Some("tls.pem") }

Environments == [port : PortSettings, cert : FileSettings, key : FileSettings]

\* os.getenv(name, default): the string of the environment as it is.
getenv(setting, default) == IF setting = None THEN default ELSE setting

\* Variant: the names the __main__ block uses are bound as well.
ModuleNames_with_main_names ==
    { "PORT", "TLS_CERT", "TLS_KEY", "CAM_DIR", "FRAME_RATE", "FRAME_TIME",
      "CSP_HEADER", "app", "TLS_CERT_FILE", "TLS_KEY_FILE", "LSCAT_PORT" }

\* The names bound at module level once lines 38-46 have run.
ModuleNames ==
    { "PORT", "TLS_CERT", "TLS_KEY", "CAM_DIR", "FRAME_RATE", "FRAME_TIME",
      "CSP_HEADER", "app" }

\* The process ends with an error report (a traceback, or the print of
\* lines 129-130).
Fails(error) == boot' = [boot EXCEPT !.pc = "failed", !.error = error]

\* PORT=os.getenv("LSCAT_SERVER_PORT", 443) ... CSP_HEADER=..., app = Sanic(...)
Import ==
    /\ boot.pc = "start"
    /\ boot' = [boot EXCEPT !.PORT = getenv(boot.env.port, Some("443")),
                            !.TLS_CERT = boot.env.cert,
                            !.TLS_KEY = boot.env.key,
                            !.pc = "main"]
    /\ UNCHANGED <<fs, FRAME_RATE, sess, monitor>>

\* The __main__ block.  "if TLS_CERT_FILE:" reads a name that is not bound,
\* outside the try.  Were the names bound, app.run would be called with the
\* values as read from the environment, and whether Sanic then serves or
\* raises is not decided by this file.
Main ==
    /\ boot.pc = "main"
    /\ IF "TLS_CERT_FILE" \notin ModuleNames
       THEN Fails("NameError")
       ELSE IF boot.TLS_CERT # None /\ "TLS_KEY_FILE" \notin ModuleNames
       THEN Fails("NameError")
       ELSE IF "LSCAT_PORT" \notin ModuleNames
       THEN Fails("NameError")
       ELSE \E serves \in BOOLEAN :
               IF serves
               THEN boot' = [boot EXCEPT !.pc = "listening"]
               ELSE Fails("Exception")
    /\ UNCHANGED <<fs, FRAME_RATE, sess, monitor>>

InitStartup ==
    /\ fs \in [Paths -> Files]
    /\ FRAME_RATE = DEFAULT_FRAME_RATE
    /\ sess = [s \in Sessions |-> NewSession]
    /\ \E e \in Environments :
          boot = [ pc |-> "start", env |-> e, PORT |-> None,
                   TLS_CERT |-> None, TLS_KEY |-> None, error |-> "none" ]
    /\ NoMonitor

NextStartup ==
    \/ Import
    \/ Main

\* The process from its start, under every environment modelled.
SpecStartup == InitStartup /\ [][NextStartup]_vars

(***************************************************************************)
(* C11.  Configuration faults.                                             *)
(***************************************************************************)
\* The port setting is not a number, or not a port number.
InvalidPort(setting) == setting \in { Some("http"), Some("70000") }

\* A certificate is given without its key.
CertWithoutKey(e) == e.cert # None /\ e.key = None

Starting(r) == r.pc \in {"idle", "exists1"}
Streaming(r) == r.pc \in {"respond"} \cup LoopPcs
Closed(r) == r.pc = "closed"

\* C12: a session is always in exactly one of Starting, Streaming, Closed; a
\* step takes it from Starting to Streaming (the frame file was found), from
\* Starting to Closed (NotFound or Forbidden), from Streaming to Streaming, or
\* from Streaming to Closed (fault or disconnect), and nowhere else; a Closed
\* session never changes again: no read, no send, no sleep.
C12_SessionStateMachine ==
    [][\A s \in Sessions :
         LET a == sess[s]
             b == sess'[s]
         IN  /\ Cardinality({ i \in 1..3 :
                    <<Starting(a), Streaming(a), Closed(a)>>[i] }) = 1
             /\ Starting(a) =>
                   \/ Starting(b)
                   \/ Streaming(b) /\ exists(fileName(b.feedSubdir))
                   \/ Closed(b) /\ b.result \in {"NotFound", "Forbidden"}
             /\ Streaming(a) =>
                   \/ Streaming(b)
                   \/ Closed(b) /\ b.why \in {"readFault", "sendFault", "disconnect"}
             /\ Closed(a) => b = a
      ]_vars

\* A session was closed after streaming a chunk while the other one streams.
C12_Witness ==
    /\ Closed(sess["s1"]) /\ sess["s1"].chunks >= 1
    /\ sess["s2"].pc = "sendBody" /\ sess["s2"].chunks >= 1

(***************************************************************************)
(* C13.  Order of the parts of a chunk.                                    *)
(***************************************************************************)
\* C13: within a session the header of a chunk is sent only when no chunk is
\* in progress, the payload only after the header and once, and the chunk is
\* completed (by the trailing CRLF) only after header and payload, which is
\* when the next chunk may begin; a step of another session leaves the output
\* of this one as it is.
C13_ChunksInOrder ==
    [][\A s \in Sessions :
         LET a == sess[s]
             b == sess'[s]
         IN  /\ (b.hdr # a.hdr /\ b.hdr # None) =>
                    a.hdr = None /\ a.body = None /\ b.body = None
             /\ (b.body # a.body /\ b.body # None) =>
                    a.hdr # None /\ a.body = None /\ b.hdr = a.hdr
             /\ b.chunks # a.chunks =>
                    /\ b.chunks = a.chunks + 1
                    /\ a.hdr # None /\ a.body # None
                    /\ b.hdr = None /\ b.body = None
             /\ (\E o \in Sessions \ {s} : Moves(o)) => b = a
      ]_vars

\* Both sessions are in the middle of a chunk, one after its header, the
\* other after its payload, each with a chunk already sent.
C13_Witness ==
    /\ sess["s1"].pc = "sendBody" /\ sess["s1"].hdr # None
    /\ sess["s1"].chunks = 1
    /\ sess["s2"].pc = "sendTail" /\ sess["s2"].body # None
    /\ sess["s2"].chunks = 1

(***************************************************************************)
(* C14.  No natural end of stream.                                         *)
(***************************************************************************)
\* C14: a Streaming session becomes Closed only in a step that is a read
\* fault, a send fault or a disconnect, and that step sends nothing (no final
\* boundary); with its handler scheduled fairly, a Streaming session that has
\* sent n chunks sends chunk n+1 unless a fault or disconnect closes it, for
\* every n below the bound of the model.
C14_NoNaturalEnd ==
    /\ [][LET a == sess["s1"]
              b == sess'["s1"]
          IN  (Streaming(a) /\ Closed(b)) =>
                 /\ \/ b.why = "readFault" /\ b.result = "ServerError"
                    \/ b.why = "sendFault" /\ b.result = "ServerError"
                    \/ b.why = "disconnect" /\ b.result = "Cancelled"
                 /\ b.chunks = a.chunks /\ b.hdr = None /\ b.body = None
       ]_vars
    /\ \A n \in 0..(MaxChunks - 1) :
          (Streaming(sess["s1"]) /\ sess["s1"].chunks = n)
             ~> (Closed(sess["s1"]) \/ sess["s1"].chunks = n + 1)

\* The session has sent every chunk the model allows and is still streaming.
C14_Witness ==
    /\ sess["s1"].pc = "stat" /\ sess["s1"].chunks = MaxChunks
    /\ sess["s1"].result = "none"

(***************************************************************************)
(* C15.  The frame path of a session.                                      *)
(***************************************************************************)
\* The directory the convention selects for a feed under the present layout.
Selected(feed) ==
    IF Has(Tier2(feed)) THEN <<feed, feed \o "-1">> ELSE <<feed>>

\* C15: a session takes its directory from the layout present at the step
\* of its own request, whatever other sessions have resolved before; from
\* then on, through the lookup of the feed's own file and the whole stream,
\* the directory stays what it is, whatever the writer does to the layout.
C15_PathResolvedOnce ==
    [][\A s \in Sessions :
         LET a == sess[s]
             b == sess'[s]
         IN  /\ (a.pc = "idle" /\ b.pc \in {"exists1", "respond"}) =>
                    b.feedSubdir = Selected(b.feed)
             /\ (a.pc \in {"exists1", "respond"} \cup LoopPcs /\ ~Closed(b)) =>
                    b.feedSubdir = a.feedSubdir /\ b.feed = a.feed
      ]_vars

\* Session s1 streams the feed's own file although the sub-feed file has
\* appeared since, and session s2, started later, streams the sub-feed file.
C15_Witness ==
    /\ sess["s1"].pc = "sendBody" /\ sess["s1"].chunks = 1
    /\ FramePath("s1") = Tier1("cam1") /\ Has(Tier2("cam1"))
    /\ sess["s2"].pc = "sendBody" /\ FramePath("s2") = Tier2("cam1")

(***************************************************************************)
(* C16.  Bounds of a pacing suspension.                                    *)
(***************************************************************************)
\* The suspension session s has requested is longer than 10 ms: in whole
\* nanoseconds, or by the fraction of a nanosecond beyond them.
LongerThanGuard(s) ==
    \/ sess[s].sleepReq > GUARD_BAND
    \/ sess[s].sleepReq = GUARD_BAND /\ SleepRounding(sess[s].t) > 0

\* C16: every pacing suspension is requested for more than 10 ms and less
\* than the frame period; so none is requested at a period of 10 ms or less,
\* and none after an iteration measured to take no time.
C16_SuspensionBounds ==
    \A s \in Sessions :
        (sess[s].pc = "sleep") =>
            /\ LongerThanGuard(s)
            /\ sess[s].sleepReq < FRAME_TIME
            /\ FRAME_TIME > GUARD_BAND
            /\ sess[s].t > 0

\* At the default rate the session sleeps after an iteration of exactly
\* 90 ms: the request is 10 ms and a fraction of a nanosecond.
C16_Witness ==
    /\ FRAME_RATE = 10
    /\ sess["s1"].pc = "sleep" /\ sess["s1"].t = FRAME_TIME - GUARD_BAND
    /\ sess["s1"].sleepReq = GUARD_BAND

(***************************************************************************)
(* lspvmonitor (src/lspvmonitor.py): EPICS process variables (PVs) are     *)
(* read and monitored over Channel Access, and their value and status are  *)
(* written to Redis hashes, one per station the PV is configured for.      *)
(* Three threads take part: the main thread, which registers every PV and  *)
(* then starts the servicer; the servicer, which registers the PVs of      *)
(* retryQueue again every five seconds; and the Channel Access thread,     *)
(* which runs lsPvCallback, one invocation at a time.                      *)
(***************************************************************************)
\* The length retryQueue may reach.
MaxQueue == 3

\* Values a PV may have, and the status a callback may carry: 0 or not.
Values == {1, 2}
Statuses == {0, 1}

\* lspvmonitor.config.json: two stations, each with a Redis store of its
\* own; one PV is configured for both stations, one for the first only.
config ==
    << [ stn |-> "f", stnNum |-> 3, iocRedis |-> "redisF",
         pvs |-> <<"pvA", "pvB">> ],
       [ stn |-> "g", stnNum |-> 4, iocRedis |-> "redisG",
         pvs |-> <<"pvA">> ] >>

Range(q) == { q[i] : i \in DOMAIN q }

\* stations[stn] = {"stnNum": stnNum, "redis": redisConn}
stations ==
    [ stn \in { config[i].stn : i \in DOMAIN config } |->
        LET i == CHOOSE j \in DOMAIN config : config[j].stn = stn
        IN  [ stnNum |-> config[i].stnNum, redis |-> config[i].iocRedis ] ]

\* redisHash = f"stns.{stnNum}.{subHash}"
redisHash(stnNum, pvName) == <<"stns", stnNum, pvName>>

\* The name redisConn once the loop over config.items() is over: the
\* connection made for the station configured last.
redisConn == config[Len(config)].iocRedis

\* The PV names in the order of their first appearance in the configuration.
RECURSIVE pvNamesUpTo(_)
pvNamesUpTo(n) ==
    IF n = 0 THEN <<>>
    ELSE LET before == pvNamesUpTo(n - 1)
             IsNew(pv) == pv \notin Range(before)
         IN  before \o SelectSeq(config[n].pvs, IsNew)

\* list(pvMappings.keys())
pvNames == pvNamesUpTo(Len(config))

\* pvMappings[pvName]: the stations that have the PV with the hash of each,
\* in the order of the configuration (the order .items() yields).
pvMappings ==
    [ pv \in Range(pvNames) |->
        LET Has_pv(i) == pv \in Range(config[i].pvs)
            idx == SelectSeq([i \in DOMAIN config |-> i], Has_pv)
        IN  [ k \in DOMAIN idx |->
                [ stn |-> config[idx[k]].stn,
                  redisHash |-> redisHash(config[idx[k]].stnNum, pv) ] ] ]

\* The Redis stores and the hashes of the configuration.
Stores == { config[i].iocRedis : i \in DOMAIN config }
Hashes ==
    UNION { { redisHash(config[i].stnNum, pv) : pv \in Range(config[i].pvs) } :
            i \in DOMAIN config }

\* The stores after the loop over the configuration: every station's store
\* holds the station's hashes, with lspvmonitor_status "inactive" and no
\* VALUE.  A hash a store does not hold has status "absent".
InitialStores ==
    [ st \in Stores |->
        [ h \in Hashes |->
            IF \E i \in DOMAIN config :
                  /\ config[i].iocRedis = st
                  /\ \E pv \in Range(config[i].pvs) :
                        h = redisHash(config[i].stnNum, pv)
            THEN [ lspvmonitor_status |-> "inactive", VALUE |-> None ]
            ELSE [ lspvmonitor_status |-> "absent", VALUE |-> None ] ] ]

\* conn.hset(name, mapping=m): the fields of m are set, the others stay.
hset(r, conn, name, m) ==
    [ r EXCEPT ![conn][name] =
        [ lspvmonitor_status |-> m.lspvmonitor_status,
          VALUE |-> IF m.VALUE = None THEN @.VALUE ELSE m.VALUE ] ]

\* "for stn, redisHash in pvMappings[pvName].items(): redisConn.hset(...)"
\* from the k-th station on.
RECURSIVE hsetEach(_, _, _, _)
hsetEach(r, mappings, k, m) ==
    IF k > Len(mappings) THEN r
    ELSE hsetEach(hset(r, redisConn, mappings[k].redisHash, m), mappings, k + 1, m)

inactive == [ lspvmonitor_status |-> "inactive", VALUE |-> None ]
active(value) == [ lspvmonitor_status |-> "active", VALUE |-> Some(value) ]

\* No activation of registerPvs; no activation of lsPvCallback.
NoReg ==
    [ by |-> "none", pvNames |-> <<>>, pvValues |-> <<>>, i |-> 0,
      failedPvs |-> <<>> ]
NoCb == [ pc |-> "idle", pvname |-> "", value |-> 0, status |-> 0, k |-> 0 ]

\* epics.caget_many(pvNames, ...): a value for each PV whose IOC answers,
\* None for the others.
caget_many(names, values) ==
    [ i \in DOMAIN names |->
        IF names[i] \in reachable THEN Some(values[i]) ELSE None ]

\* registerPvs is entered by thread "who" with the list "names".
Entered(who, names, values) ==
    [ by |-> who, pvNames |-> names, pvValues |-> caget_many(names, values),
      i |-> 1, failedPvs |-> <<>> ]

\* The server beside which nothing is modelled here.
NoServer ==
    /\ fs = [p \in Paths |-> Absent]
    /\ FRAME_RATE = DEFAULT_FRAME_RATE
    /\ sess = [s \in Sessions |-> NewSession]
    /\ boot = [Served EXCEPT !.pc = "off"]

\* The state at line 89: configuration loaded and published, nothing
\* registered yet.
InitMonitor ==
    /\ NoServer
    /\ retryQueue = <<>>
    /\ queueLock = "none"
    /\ PVmonitors = {}
    /\ redis = InitialStores
    /\ reachable \in SUBSET Range(pvNames)
    /\ main = "start"
    /\ servicer = "off"
    /\ reg = NoReg
    /\ cb = NoCb

server == <<fs, FRAME_RATE, sess, boot>>

\* retryQueue = registerPvs(list(pvMappings.keys()), cagetTimeout=5.0): the
\* call, up to the return of caget_many.  No lock is taken.
MainRegisterPvs ==
    /\ main = "start"
    /\ \E values \in [DOMAIN pvNames -> Values] :
          reg' = Entered("main", pvNames, values)
    /\ main' = "registering"
    /\ UNCHANGED <<server, retryQueue, queueLock, PVmonitors, redis,
                   reachable, servicer, cb>>

\* One iteration of "for i in range(len(pvValues))" of registerPvs, with its
\* loop over the stations of the PV.
RegisterPv ==
    /\ reg.by # "none"
    /\ reg.i <= Len(reg.pvNames)
    /\ LET pvName == reg.pvNames[reg.i]
           pvValue == reg.pvValues[reg.i]
       IN  IF pvValue = None
           THEN /\ reg' = [reg EXCEPT !.failedPvs = Append(@, pvName),
                                      !.i = @ + 1]
                /\ redis' = hsetEach(redis, pvMappings[pvName], 1, inactive)
                /\ UNCHANGED PVmonitors
           ELSE /\ reg' = [reg EXCEPT !.i = @ + 1]
                /\ redis' = hsetEach(redis, pvMappings[pvName], 1,
                                     active(pvValue[1]))
                /\ PVmonitors' = PVmonitors \cup {pvName}
    /\ UNCHANGED <<server, retryQueue, queueLock, reachable, main, servicer, cb>>

\* registerPvs returns to line 141: retryQueue is assigned the failed PVs,
\* and the servicer thread is started.
ReturnToMain ==
    /\ reg.by = "main"
    /\ reg.i > Len(reg.pvNames)
    /\ retryQueue' = reg.failedPvs
    /\ reg' = NoReg
    /\ main' = "ready"
    /\ servicer' = "sleep"
    /\ UNCHANGED <<server, queueLock, PVmonitors, redis, reachable, cb>>

\* retryQueueServicer: time.sleep(5) is over, queueLock is acquired and
\* registerPvs(retryQueue) is entered, up to the return of caget_many.
ServicerPass ==
    /\ servicer = "sleep"
    /\ queueLock = "none"
    /\ queueLock' = "servicer"
    /\ \E values \in [DOMAIN retryQueue -> Values] :
          reg' = Entered("servicer", retryQueue, values)
    /\ servicer' = "pass"
    /\ UNCHANGED <<server, retryQueue, PVmonitors, redis, reachable, main, cb>>

\* registerPvs returns to line 137: retryQueue is assigned the failed PVs
\* and the lock is released.
ReturnToServicer ==
    /\ reg.by = "servicer"
    /\ reg.i > Len(reg.pvNames)
    /\ retryQueue' = reg.failedPvs
    /\ queueLock' = "none"
    /\ reg' = NoReg
    /\ servicer' = "sleep"
    /\ UNCHANGED <<server, PVmonitors, redis, reachable, main, cb>>

\* Channel Access calls lsPvCallback for a monitored PV.
lsPvCallback(pvname, value, status) ==
    /\ cb.pc = "idle"
    /\ pvname \in PVmonitors
    /\ status # 0 => Len(retryQueue) + Len(pvMappings[pvname]) <= MaxQueue
    /\ cb' = [ pc |-> "loop", pvname |-> pvname, value |-> value,
               status |-> status, k |-> 1 ]
    /\ UNCHANGED <<server, retryQueue, queueLock, PVmonitors, redis,
                   reachable, main, servicer, reg>>

\* The callback goes on to the next station, or returns after the last.
NextStation(c) ==
    IF c.k < Len(pvMappings[c.pvname])
    THEN [c EXCEPT !.k = @ + 1, !.pc = "loop"]
    ELSE NoCb

\* One iteration of "for stn, redisHash in pvMappings[pvname].items()" up to
\* "with queueLock": the value is published, or the monitor is cleared.
CallbackStation ==
    /\ cb.pc = "loop"
    /\ IF cb.status = 0
       THEN /\ redis' = hset(redis, redisConn,
                             pvMappings[cb.pvname][cb.k].redisHash,
                             active(cb.value))
            /\ cb' = NextStation(cb)
            /\ UNCHANGED PVmonitors
       ELSE /\ PVmonitors' = PVmonitors \ {cb.pvname}
            /\ cb' = [cb EXCEPT !.pc = "append"]
            /\ UNCHANGED redis
    /\ UNCHANGED <<server, retryQueue, queueLock, reachable, main, servicer, reg>>

\* "with queueLock: retryQueue.append(pvname)", which waits for the lock,
\* and the hset that ends the iteration.
CallbackAppend ==
    /\ cb.pc = "append"
    /\ queueLock = "none"
    /\ retryQueue' = Append(retryQueue, cb.pvname)
    /\ redis' = hset(redis, redisConn,
                     pvMappings[cb.pvname][cb.k].redisHash, inactive)
    /\ cb' = NextStation(cb)
    /\ UNCHANGED <<server, queueLock, PVmonitors, reachable, main, servicer, reg>>

\* An IOC stops answering, or answers again.
IocDown(pv) ==
    /\ pv \in reachable
    /\ reachable' = reachable \ {pv}
    /\ UNCHANGED <<server, retryQueue, queueLock, PVmonitors, redis, main,
                   servicer, reg, cb>>

IocUp(pv) ==
    /\ pv \notin reachable
    /\ reachable' = reachable \cup {pv}
    /\ UNCHANGED <<server, retryQueue, queueLock, PVmonitors, redis, main,
                   servicer, reg, cb>>

\* The steps of the threads of lspvmonitor.
Registering ==
    \/ MainRegisterPvs
    \/ RegisterPv
    \/ ReturnToMain
    \/ ServicerPass
    \/ ReturnToServicer

NextMonitor ==
    \/ Registering
    \/ \E pv \in Range(pvNames), v \in Values, st \in Statuses :
          lsPvCallback(pv, v, st)
    \/ CallbackStation
    \/ CallbackAppend
    \/ \E pv \in Range(pvNames) : IocDown(pv)
    \/ \E pv \in Range(pvNames) : IocUp(pv)

SpecMonitor == InitMonitor /\ [][NextMonitor]_vars

\* The threads are scheduled fairly: a thread that can run does run, and a
\* callback waiting for queueLock gets it in one of the five-second pauses
\* of the servicer.
SpecMonitorFair ==
    /\ InitMonitor
    /\ [][NextMonitor]_vars
    /\ WF_vars(Registering)
    /\ WF_vars(CallbackStation)
    /\ SF_vars(CallbackAppend)

(***************************************************************************)
(* Vocabulary of the properties of lspvmonitor.                            *)
(***************************************************************************)
\* The number of times pv occurs in the list q.
Occurrences(q, pv) == Cardinality({ i \in DOMAIN q : q[i] = pv })

\* The fields of the hash of pv for its k-th station, in the Redis store
\* configured for that station.
Published(pv, k) ==
    redis[stations[pvMappings[pv][k].stn].redis][pvMappings[pv][k].redisHash]

\* No activation of lsPvCallback or of registerPvs is at work on pv.
Quiet(pv) == cb.pvname # pv /\ pv \notin Range(reg.pvNames)

(***************************************************************************)
(* C17.  No PV is lost.                                                    *)
(***************************************************************************)
\* C17: once the initial registration has begun, every configured PV has a
\* CA monitor, or is in retryQueue, or is in the list registerPvs is working
\* on (or is in the hands of a callback that is about to append it).  The
\* assignment of line 141 discards what a callback appended while the
\* initial registerPvs was running, which breaks it.
C17_NoPvLost ==
    main # "start" =>
        \A pv \in Range(pvNames) :
            \/ pv \in PVmonitors
            \/ pv \in Range(retryQueue)
            \/ pv \in Range(reg.pvNames)
            \/ cb.pvname = pv

(***************************************************************************)
(* C18.  Progress of the retry loop.                                       *)
(***************************************************************************)
\* C18: with the threads scheduled fairly, the servicer starts a pass after
\* every pause and a callback waiting for queueLock gets it; and a PV that is
\* in retryQueue, with its IOC answering from some time on for good, is later
\* out of the queue, is later monitored, and is later published as active.
\* A PV appended during the initial registerPvs is dropped by line 141 and
\* never registered, which breaks the last part.
C18_RetryProgress ==
    /\ (servicer = "sleep") ~> (servicer = "pass")
    /\ (cb.pc = "append") ~> (cb.pc # "append")
    /\ \A pv \in Range(pvNames) :
          (<>[](pv \in reachable)) =>
             /\ (pv \in Range(retryQueue)) ~> (pv \notin Range(retryQueue))
             /\ (pv \in Range(retryQueue)) ~>
                   ( /\ pv \in PVmonitors
                     /\ \E st \in Stores :
                           redis[st][pvMappings[pv][1].redisHash]
                              .lspvmonitor_status = "active" )

(***************************************************************************)
(* C19.  Status per station.                                               *)
(***************************************************************************)
\* C19: for every PV that no callback and no registration is at work on, and
\* every station it is mapped to, the hash in that station's own store is
\* active with a VALUE when the PV is monitored, and inactive when the PV is
\* in retryQueue.  Every hset after the configuration loop goes through the
\* connection of the station configured last, which breaks it.
C19_StatusInOwnStore ==
    \A pv \in Range(pvNames) :
        Quiet(pv) =>
            \A k \in DOMAIN pvMappings[pv] :
                /\ (pv \in PVmonitors /\ pv \notin Range(retryQueue)) =>
                       /\ Published(pv, k).lspvmonitor_status = "active"
                       /\ Published(pv, k).VALUE # None
                /\ (pv \in Range(retryQueue) /\ pv \notin PVmonitors) =>
                       Published(pv, k).lspvmonitor_status = "inactive"

(***************************************************************************)
(* C20.  One monitor, one queue entry.                                     *)
(***************************************************************************)
\* C20: no PV occurs more than once in retryQueue.  The append of line 103
\* is inside the loop over the stations of the PV, so one lost-connection
\* callback of a PV of two stations appends it twice, which breaks it.
C20_AtMostOnceInQueue ==
    \A pv \in Range(pvNames) : Occurrences(retryQueue, pv) <= 1

====
